---------------------------- MODULE Spec2Model ----------------------------
(***************************************************************************)
(* Elliptic-curve ElGamal (Modules/EC ElGamal/elgamal.c) and the life      *)
(* cycle of the bulletproof range-proof harness                            *)
(* (Modules/Bulletproof/bulletproof.c).                                    *)
(*                                                                         *)
(* The curve group G1 is cyclic of order n with generator P.  A point is   *)
(* represented by its index with respect to P (the point t*P is the        *)
(* residue t mod n), so the identity is 0 and P is 1.  Scalars (bn_t) are  *)
(* unbounded integers; only the group operations reduce modulo n.          *)
(***************************************************************************)
EXTENDS Integers, Sequences, FiniteSets

\* ------------------------------------------------------------------ bounds
\* Order n of the toy group.
Order == 5
\* Largest value bn_rand(k, RLC_POS, RLC_BN_BITS) may give (full width, above n).
KMax == 7
\* Largest message handed to elgamal_encrypt (above n: outside every domain).
MMax == 6
\* Largest n_proofs and n_commits given to the range-proof harness.
MaxProofs == 3
MaxCommits == 3
\* Largest n_commits in the check of the blinding factors.
BigCommits == 65537

\* --------------------------------------------------------- the curve group
Points == 0 .. (Order - 1)
\* ec_curve_get_gen: the generator P.
Generator == 1
\* The identity element (point at infinity).
Infinity == 0

\* ec_mul(R, Q, k): R = k*Q.
EcMul(Q, k) == (k * Q) % Order
\* ec_add(R, A, B2): R = A + B2.
EcAdd(A, B2) == (A + B2) % Order
\* ec_sub(R, A, B2): R = A - B2.
EcSub(A, B2) == (A - B2) % Order

\* A bn_rand_mod that may draw 0 (the variant C4 is checked against).
BnRandModZero(n) == 0 .. (n - 1)
\* bn_rand_mod(s, n): a non-zero scalar below n (elgamal.c:30, "[1, n-1]").
BnRandMod(n) == 1 .. (n - 1)
\* bn_rand(k, RLC_POS, RLC_BN_BITS): any non-negative scalar of full width.
BnRand == 0 .. KMax

\* ------------------------------------------------------------- temporaries
\* The temporaries of the three functions (dynamic allocation: bn_new/ec_new
\* set the pointer, bn_free/ec_free release it when it is not NULL and reset
\* it to NULL).
TempNames == {"k", "P", "h", "M", "n", "ord"}
NoTemps == [t \in TempNames |-> [live |-> FALSE, allocs |-> 0, frees |-> 0]]

\* bn_new / ec_new of temporary t.
TmpNew(T, t) ==
    [T EXCEPT ![t] = [live |-> TRUE, allocs |-> @.allocs + 1, frees |-> @.frees]]

\* A free without the NULL test (the variant C8 is checked against).
TmpFreeAlways(T, t) ==
    [T EXCEPT ![t] = [live |-> FALSE, allocs |-> @.allocs, frees |-> @.frees + 1]]
\* bn_free / ec_free of temporary t: nothing when the pointer is NULL.
TmpFree(T, t) ==
    IF T[t].live
      THEN [T EXCEPT ![t] = [live |-> FALSE, allocs |-> @.allocs,
                             frees |-> @.frees + 1]]
      ELSE T

RECURSIVE TmpNewSeq(_, _, _)
\* The first `done` allocations of the sequence `names` have succeeded.
TmpNewSeq(T, names, done) ==
    IF done <= 0 \/ names = << >> THEN T
    ELSE TmpNewSeq(TmpNew(T, Head(names)), Tail(names), done - 1)

RECURSIVE TmpFreeSeq(_, _)
\* The RLC_FINALLY block: the frees in the order written.
TmpFreeSeq(T, names) ==
    IF names = << >> THEN T
    ELSE TmpFreeSeq(TmpFree(T, Head(names)), Tail(names))

\* ------------------------------------------------------------------ state
VARIABLES
    pc,     \* "idle", or the position inside the function being executed
    key,    \* the caller's key pair: s, B; ok: written by a keygen that succeeded
    ct,     \* the caller's ciphertexts: M1, M2; ok, m, k: the encryption behind it
    mOut,   \* the caller's bn_t that elgamal_decrypt writes through *m
    call,   \* the call in progress or the last one: arguments, status, what it did
    temps,  \* the temporaries of that call
    loc,    \* elgamal_decrypt's points h and M
    bp,     \* the bulletproof_rangeproof_t structure and the heap behind it
    bl      \* the blinding factors bulletproof_rangeproof_pedersen_commit writes

vars == <<pc, key, ct, mOut, call, temps, loc, bp, bl>>

Slots == {1, 2}

\* The status values; a function that ends without a return statement hands
\* its caller an indeterminate int.
RLC_OK == "RLC_OK"
RLC_ERR == "RLC_ERR"
Indeterminate == {"RLC_OK", "RLC_ERR", "garbage"}

\* op: the function; slot, s, m: its arguments; result: the local `result`;
\* ret: the status the caller receives; threw: a statement of the RLC_TRY
\* block threw; changed: the call changed the value of an output location;
\* pre: the value *m had at the call; muls: the scalar multiplications
\* ec_mul(h, P, *m) the search loop has carried out.
NoCall == [op |-> "none", slot |-> 0, s |-> 0, m |-> 0, result |-> RLC_OK,
           ret |-> "none", threw |-> FALSE, changed |-> FALSE, pre |-> 0,
           muls |-> 0]

EmptyCt == [M1 |-> Infinity, M2 |-> Infinity, ok |-> FALSE, m |-> 0, k |-> 0]
NoLoc == [h |-> Infinity, M |-> Infinity]

\* The heap blocks of the range-proof harness: a single block <<name, 0>>, or
\* element i of an array of pointers <<name, i>>.
Singles == {"ctx", "scratch", "generators", "proof", "value_gen", "commit",
            "blind", "value"}
Blocks == {<<b, 0>> : b \in Singles}
            \cup {<<"proof[]", i>> : i \in 0 .. (MaxProofs - 1)}
            \cup {<<"commit[]", i>> : i \in 0 .. (MaxProofs - 1)}
            \cup {<<"blind[]", i>> : i \in 0 .. (MaxCommits - 1)}

\* pos: the position in the harness; i: the loop index; heap: per block, how
\* often it was allocated and freed; blindSet: the indices i whose pointer
\* data->blind[i] has been assigned; wild: the calls of free() on a pointer
\* that no allocation returned.
BpInit == [pos |-> "new", np |-> 0, nc |-> 0, i |-> 0,
           heap |-> [b \in Blocks |-> [allocs |-> 0, frees |-> 0]],
           blindSet |-> {}, wild |-> 0]

\* unsigned char blind[32]: 32 bytes, each below 256; `i >> 8` shifts by 8 bits.
BlindLen == 32
ByteRange == 256
ShiftBits == 8
NoBlind == [x \in 1 .. BlindLen |-> 0]

\* pos: the position in bulletproof_rangeproof_pedersen_commit; nc: n_commits;
\* buf: the local array blind (buf[1] is blind[0]); i: the loop index; kept:
\* pairs <<i, the 32 bytes copied to data->blind[i]>>.
BlInit == [pos |-> "new", nc |-> 0, buf |-> NoBlind, i |-> 0, kept |-> {}]

Init ==
    /\ pc = "idle"
    /\ key = [s |-> 0, B |-> Infinity, ok |-> FALSE]
    /\ ct = [j \in Slots |-> EmptyCt]
    /\ mOut = 0
    /\ call = NoCall
    /\ temps = NoTemps
    /\ loc = NoLoc
    /\ bp = BpInit
    /\ bl = BlInit

\* The statements that ran when statement f threw (f = 0: none threw).
Done(f, steps) == IF f = 0 THEN steps ELSE f - 1
\* RLC_CATCH_ANY: result = RLC_ERR.
Status(f) == IF f = 0 THEN RLC_OK ELSE RLC_ERR

\* ---------------------------------------------------------- elgamal_keygen
\* The statements of the RLC_TRY block: ec_new(P), bn_new(n), ec_curve_get_gen,
\* ec_curve_get_ord, bn_rand_mod, ec_mul.
KeygenSteps == 6
KeygenAllocs == <<"P", "n">>
KeygenFrees == <<"n", "P">>

\* A keygen that copies P instead of multiplying it (the variant C2 is
\* checked against).
KeygenOutNoMul(sOld, BOld, r, done) ==
    [s |-> IF done >= 5 THEN r ELSE sOld,
     B |-> IF done >= 6 THEN Generator ELSE BOld]
\* What the first `done` statements leave in s and B, r being bn_rand_mod's draw.
KeygenOut(sOld, BOld, r, done) ==
    [s |-> IF done >= 5 THEN r ELSE sOld,
     B |-> IF done >= 6 THEN EcMul(Generator, r) ELSE BOld]

\* The call elgamal_keygen(s, B): result = RLC_OK, the temporaries are NULL.
KeygenEnter ==
    /\ pc = "idle"
    /\ pc' = "keygen_try"
    /\ call' = [NoCall EXCEPT !.op = "keygen"]
    /\ temps' = NoTemps
    /\ UNCHANGED <<key, ct, mOut, loc, bp, bl>>

\* RLC_TRY, RLC_CATCH_ANY, RLC_FINALLY and the return.  A new key pair ends
\* the validity of the ciphertexts made under the old one.
KeygenBody(f, r) ==
    /\ pc = "keygen_try"
    /\ LET done == Done(f, KeygenSteps)
           out == KeygenOut(key.s, key.B, r, done)
       IN /\ key' = [s |-> out.s, B |-> out.B, ok |-> (f = 0)]
          /\ temps' = TmpFreeSeq(TmpNewSeq(temps, KeygenAllocs, done), KeygenFrees)
          /\ call' = [call EXCEPT !.result = Status(f), !.ret = Status(f),
                                  !.threw = (f # 0),
                                  !.changed = (<<out.s, out.B>> # <<key.s, key.B>>)]
    /\ ct' = [j \in Slots |-> [ct[j] EXCEPT !.ok = FALSE, !.m = 0, !.k = 0]]
    /\ pc' = "idle"
    /\ UNCHANGED <<mOut, loc, bp, bl>>

\* --------------------------------------------------------- elgamal_encrypt
\* bn_new(k), ec_new(P), ec_new(h), ec_new(M), bn_rand, ec_curve_get_gen,
\* ec_mul(M), ec_mul(M1), ec_mul(h), ec_add(M2).
EncryptSteps == 10
EncryptAllocs == <<"k", "P", "h", "M">>
EncryptFrees == <<"k", "P", "h", "M">>

\* An encrypt that leaves the mask h out of M2 (the variant C1 is checked
\* against).
EncryptOutNoMask(B, m, k, old1, old2, done) ==
    [M1 |-> IF done >= 8 THEN EcMul(Generator, k) ELSE old1,
     M2 |-> IF done >= 10 THEN EcMul(Generator, m) ELSE old2]
\* An encrypt that multiplies P by m instead of k for M1 (the variant C5 is
\* checked against).
EncryptOutM1FromM(B, m, k, old1, old2, done) ==
    [M1 |-> IF done >= 8 THEN EcMul(Generator, m) ELSE old1,
     M2 |-> IF done >= 10
              THEN EcAdd(EcMul(Generator, m), EcMul(B, k))
              ELSE old2]
\* What the first `done` statements leave in M1 and M2.
EncryptOut(B, m, k, old1, old2, done) ==
    [M1 |-> IF done >= 8 THEN EcMul(Generator, k) ELSE old1,
     M2 |-> IF done >= 10
              THEN EcAdd(EcMul(Generator, m), EcMul(B, k))
              ELSE old2]

\* The call elgamal_encrypt(B, m, M1, M2) with the caller's public key and
\* ciphertext j.
EncryptEnter(j, m) ==
    /\ pc = "idle"
    /\ key.ok
    /\ pc' = "encrypt_try"
    /\ call' = [NoCall EXCEPT !.op = "encrypt", !.slot = j, !.m = m]
    /\ temps' = NoTemps
    /\ UNCHANGED <<key, ct, mOut, loc, bp, bl>>

\* RLC_TRY, RLC_CATCH_ANY, RLC_FINALLY and the return; k is bn_rand's draw.
EncryptBody(k, f) ==
    /\ pc = "encrypt_try"
    /\ LET j == call.slot
           done == Done(f, EncryptSteps)
           out == EncryptOut(key.B, call.m, k, ct[j].M1, ct[j].M2, done)
       IN /\ ct' = [ct EXCEPT ![j] =
                      IF f = 0
                        THEN [M1 |-> out.M1, M2 |-> out.M2, ok |-> TRUE,
                              m |-> call.m, k |-> k]
                        ELSE [M1 |-> out.M1, M2 |-> out.M2, ok |-> FALSE,
                              m |-> 0, k |-> 0]]
          /\ temps' = TmpFreeSeq(TmpNewSeq(temps, EncryptAllocs, done), EncryptFrees)
          /\ call' = [call EXCEPT !.result = Status(f), !.ret = Status(f),
                                  !.threw = (f # 0),
                                  !.changed = (<<out.M1, out.M2>>
                                                 # <<ct[j].M1, ct[j].M2>>)]
    /\ pc' = "idle"
    /\ UNCHANGED <<key, mOut, loc, bp, bl>>

\* --------------------------------------------------------- elgamal_decrypt
\* Before the loop: ec_new(h), ec_new(M), ec_new(P), bn_new(ord),
\* ec_curve_get_gen, ec_curve_get_ord, ec_mul(h), ec_sub(M).
DecryptSteps == 8
DecryptAllocs == <<"h", "M", "P", "ord">>
DecryptFrees == <<"h", "M", "P", "ord">>

\* A decrypt that adds h instead of subtracting it (the variant C9 is checked
\* against).
DecryptMaskAdd(su, M1, M2) ==
    [h |-> EcMul(M1, su), M |-> EcAdd(M2, EcMul(M1, su))]
\* h = M1*s and M = M2 - h.
DecryptMask(su, M1, M2) ==
    [h |-> EcMul(M1, su), M |-> EcSub(M2, EcMul(M1, su))]

\* The call elgamal_decrypt(s, M1, M2, &m) on the caller's ciphertext j.
DecryptEnter(j, su) ==
    /\ pc = "idle"
    /\ ct[j].ok
    /\ pc' = "decrypt_try"
    /\ call' = [NoCall EXCEPT !.op = "decrypt", !.slot = j, !.s = su, !.pre = mOut]
    /\ temps' = NoTemps
    /\ UNCHANGED <<key, ct, mOut, loc, bp, bl>>

\* The RLC_TRY block up to the loop's bn_zero(*m).
DecryptBegin(f) ==
    /\ pc = "decrypt_try"
    /\ LET j == call.slot
           done == Done(f, DecryptSteps)
       IN /\ temps' = TmpNewSeq(temps, DecryptAllocs, done)
          /\ call' = [call EXCEPT !.result = Status(f), !.threw = (f # 0)]
          /\ IF f = 0
               THEN /\ loc' = DecryptMask(call.s, ct[j].M1, ct[j].M2)
                    /\ mOut' = 0
                    /\ pc' = "dec_loop"
               ELSE /\ pc' = "dec_finally"
                    /\ UNCHANGED <<loc, mOut>>
    /\ UNCHANGED <<key, ct, bp, bl>>

\* A comparison that never reports equality (the variant C12 is checked
\* against).
SearchHitNever(t, M) == FALSE
\* A comparison that looks one step ahead (the variant C11 is checked against).
SearchHitAhead(t, M) == EcMul(Generator, t + 1) = M
\* ec_mul(h, P, *m) and the comparison ec_cmp(h, M) == RLC_EQ.
SearchHit(t, M) == EcMul(Generator, t) = M

\* One turn of the loop: the test bn_cmp(*m, ord) != RLC_EQ, ec_mul(h, P, *m),
\* the comparison with M (break), and bn_add_dig(*m, *m, 1).
DecryptStep(ev) ==
    /\ pc = "dec_loop"
    /\ IF mOut = Order
         THEN /\ pc' = "dec_finally"
              /\ UNCHANGED <<mOut, loc, call>>
       ELSE IF ev = "mul_throws"
         THEN /\ pc' = "dec_finally"
              /\ call' = [call EXCEPT !.result = RLC_ERR, !.threw = TRUE]
              /\ UNCHANGED <<mOut, loc>>
       ELSE /\ loc' = [loc EXCEPT !.h = EcMul(Generator, mOut)]
            /\ IF SearchHit(mOut, loc.M)
                 THEN /\ pc' = "dec_finally"
                      /\ call' = [call EXCEPT !.muls = @ + 1]
                      /\ UNCHANGED mOut
               ELSE IF ev = "add_throws"
                 THEN /\ pc' = "dec_finally"
                      /\ call' = [call EXCEPT !.result = RLC_ERR, !.threw = TRUE,
                                              !.muls = @ + 1]
                      /\ UNCHANGED mOut
               ELSE /\ mOut' = mOut + 1
                    /\ call' = [call EXCEPT !.muls = @ + 1]
                    /\ UNCHANGED pc
    /\ UNCHANGED <<key, ct, temps, bp, bl>>

\* The RLC_FINALLY block and the end of the function, which has no return
\* statement: the caller reads an indeterminate status r.
DecryptEnd(r) ==
    /\ pc = "dec_finally"
    /\ temps' = TmpFreeSeq(temps, DecryptFrees)
    /\ call' = [call EXCEPT !.ret = r, !.changed = (mOut # call.pre)]
    /\ loc' = NoLoc
    /\ pc' = "idle"
    /\ UNCHANGED <<key, ct, mOut, bp, bl>>

\* ------------------------------------------------------- the specification
LoopEvents == {"none", "mul_throws", "add_throws"}

Next ==
    \/ KeygenEnter
    \/ \E f \in 0 .. KeygenSteps, r \in BnRandMod(Order) : KeygenBody(f, r)
    \/ \E m \in 0 .. MMax : EncryptEnter(1, m)
    \/ \E k \in BnRand, f \in 0 .. EncryptSteps : EncryptBody(k, f)
    \/ \E su \in 0 .. (Order - 1) : DecryptEnter(1, su)
    \/ \E f \in 0 .. DecryptSteps : DecryptBegin(f)
    \/ \E ev \in LoopEvents : DecryptStep(ev)
    \/ \E r \in Indeterminate : DecryptEnd(r)

Spec == Init /\ [][Next]_vars

\* ------------------------------------------- two encryptions of one message
\* A caller that holds a key pair made by elgamal_keygen, encrypts a message
\* into its first ciphertext, encrypts the same message again into its second
\* ciphertext, and decrypts either with its private scalar.
InitTwice ==
    /\ pc = "idle"
    /\ \E r \in BnRandMod(Order) :
          key = [s |-> KeygenOut(0, Infinity, r, KeygenSteps).s,
                 B |-> KeygenOut(0, Infinity, r, KeygenSteps).B, ok |-> TRUE]
    /\ ct = [j \in Slots |-> EmptyCt]
    /\ mOut = 0
    /\ call = NoCall
    /\ temps = NoTemps
    /\ loc = NoLoc
    /\ bp = BpInit
    /\ bl = BlInit

\* No statement throws in this scenario (f = 0, no loop event).
NextTwice ==
    \/ \E m \in 0 .. MMax : ~ct[1].ok /\ EncryptEnter(1, m)
    \/ ct[1].ok /\ ~ct[2].ok /\ EncryptEnter(2, ct[1].m)
    \/ \E k \in BnRand : EncryptBody(k, 0)
    \/ \E j \in Slots : DecryptEnter(j, key.s)
    \/ DecryptBegin(0)
    \/ DecryptStep("none")
    \/ \E r \in Indeterminate : DecryptEnd(r)

SpecTwice == InitTwice /\ [][NextTwice]_vars

\* ------------------------------------------------ the range-proof harness
\* malloc / a create function of the library: block b is allocated.
HeapAlloc(h, b) == [h EXCEPT ![b].allocs = @ + 1]
\* free(p), p pointing to block b.
HeapFree(h, b) == [h EXCEPT ![b].frees = @ + 1]

RECURSIVE HeapAllocAll(_, _)
HeapAllocAll(h, bs) ==
    IF bs = {} THEN h
    ELSE LET b == CHOOSE x \in bs : TRUE
         IN HeapAllocAll(HeapAlloc(h, b), bs \ {b})

\* What bulletproof_rangeproof_setup allocates for n_proofs = np.
SetupBlocks(np) ==
    {<<b, 0>> : b \in Singles}
      \cup {<<"proof[]", i>> : i \in 0 .. (np - 1)}
      \cup {<<"commit[]", i>> : i \in 0 .. (np - 1)}

\* bulletproof_rangeproof_setup on a structure with n_proofs = np and
\* n_commits = nc; a failed malloc or generator ends the process (abort).
Setup(np, nc, ok) ==
    /\ bp.pos = "new"
    /\ bp' = IF ok
               THEN [bp EXCEPT !.pos = "ready", !.np = np, !.nc = nc,
                               !.heap = HeapAllocAll(bp.heap, SetupBlocks(np))]
               ELSE [bp EXCEPT !.pos = "aborted", !.np = np, !.nc = nc]
    /\ UNCHANGED <<pc, key, ct, mOut, call, temps, loc, bl>>

\* bulletproof_rangeproof_pedersen_commit: the random blind, i = 0.
CommitEnter ==
    /\ bp.pos = "ready"
    /\ bp' = [bp EXCEPT !.pos = "commit", !.i = 0]
    /\ UNCHANGED <<pc, key, ct, mOut, call, temps, loc, bl>>

\* One turn of its loop (data->blind[i] = malloc(32), the commitment, abort
\* when it fails), and after the loop the copies of commit[0].
CommitStep(ok) ==
    /\ bp.pos = "commit"
    /\ bp' = IF bp.i >= bp.nc
               THEN [bp EXCEPT !.pos = "committed"]
             ELSE IF ok
               THEN [bp EXCEPT !.heap = HeapAlloc(bp.heap, <<"blind[]", bp.i>>),
                               !.blindSet = @ \cup {bp.i},
                               !.i = @ + 1]
             ELSE [bp EXCEPT !.heap = HeapAlloc(bp.heap, <<"blind[]", bp.i>>),
                             !.blindSet = @ \cup {bp.i},
                             !.pos = "aborted"]
    /\ UNCHANGED <<pc, key, ct, mOut, call, temps, loc, bl>>

\* bulletproof_rangeproof_teardown is called, after setup or after the commit.
TeardownEnter ==
    /\ bp.pos \in {"ready", "committed"}
    /\ bp' = [bp EXCEPT !.pos = "td_blind", !.i = 0]
    /\ UNCHANGED <<pc, key, ct, mOut, call, temps, loc, bl>>

\* for (i < n_commits) free(data->blind[i]).  A pointer that was never
\* assigned is what malloc left in the array: NULL (isNull) or not.
TeardownBlind(isNull) ==
    /\ bp.pos = "td_blind"
    /\ bp' = IF bp.i >= bp.nc
               THEN [bp EXCEPT !.pos = "td_commit", !.i = 0]
             ELSE IF bp.i \in bp.blindSet
               THEN [bp EXCEPT !.heap = HeapFree(bp.heap, <<"blind[]", bp.i>>),
                               !.i = @ + 1]
             ELSE IF isNull
               THEN [bp EXCEPT !.i = @ + 1]
             ELSE [bp EXCEPT !.wild = @ + 1, !.i = @ + 1]
    /\ UNCHANGED <<pc, key, ct, mOut, call, temps, loc, bl>>

\* for (i < n_proofs) free(data->commit[i]); then free(data->commit),
\* free(data->blind), free(data->value).
TeardownCommit ==
    /\ bp.pos = "td_commit"
    /\ bp' = IF bp.i < bp.np
               THEN [bp EXCEPT !.heap = HeapFree(bp.heap, <<"commit[]", bp.i>>),
                               !.i = @ + 1]
               ELSE [bp EXCEPT !.heap = HeapFree(HeapFree(HeapFree(bp.heap,
                                          <<"commit", 0>>), <<"blind", 0>>),
                                          <<"value", 0>>),
                               !.pos = "td_proof", !.i = 0]
    /\ UNCHANGED <<pc, key, ct, mOut, call, temps, loc, bl>>

\* for (i < n_proofs) free(data->proof[i]); then free(data->proof),
\* free(data->value_gen), and the function returns.
TeardownProof ==
    /\ bp.pos = "td_proof"
    /\ bp' = IF bp.i < bp.np
               THEN [bp EXCEPT !.heap = HeapFree(bp.heap, <<"proof[]", bp.i>>),
                               !.i = @ + 1]
               ELSE [bp EXCEPT !.heap = HeapFree(HeapFree(bp.heap,
                                          <<"proof", 0>>), <<"value_gen", 0>>),
                               !.pos = "done"]
    /\ UNCHANGED <<pc, key, ct, mOut, call, temps, loc, bl>>

NextBP ==
    \/ \E np \in 1 .. MaxProofs, nc \in 1 .. MaxCommits, ok \in BOOLEAN :
          Setup(np, nc, ok)
    \/ CommitEnter
    \/ \E ok \in BOOLEAN : CommitStep(ok)
    \/ TeardownEnter
    \/ \E isNull \in BOOLEAN : TeardownBlind(isNull)
    \/ TeardownCommit
    \/ TeardownProof

SpecBP == Init /\ [][NextBP]_vars

\* ---------------------------------------------------------------- claims
\* Function op has returned to its caller.
Returned(op) == pc = "idle" /\ call.op = op
\* The ciphertext the last call worked on.
Ct == ct[call.slot]

\* C1: decrypting, with the private scalar of the key pair, a ciphertext that
\* elgamal_encrypt made under the public point for a message m in [0, n) and
\* any ephemeral scalar k (also k >= n) leaves exactly m in *m.
C1_RoundTrip ==
    (Returned("decrypt") /\ ~call.threw /\ Ct.ok /\ call.s = key.s
        /\ Ct.m < Order)
      => mOut = Ct.m

\* C1's case: the message n-1 under a full-width k >= n has been recovered.
C1_Witness ==
    /\ Returned("decrypt") /\ ~call.threw /\ Ct.ok /\ call.s = key.s
    /\ Ct.m = Order - 1 /\ Ct.k >= Order /\ mOut = Ct.m

\* C2: after a successful elgamal_keygen the public point is s*P and the
\* private scalar s lies in [0, n-1].
C2_PublicIsPrivateTimesGenerator ==
    (Returned("keygen") /\ call.ret = RLC_OK)
      => /\ key.s \in 0 .. (Order - 1)
         /\ key.B = (key.s * Generator) % Order

\* C2's case: a successful keygen that drew the largest scalar, n-1.
C2_Witness ==
    Returned("keygen") /\ call.ret = RLC_OK /\ key.s = Order - 1 /\ call.changed

\* C3 (as claimed): decrypting the ciphertext of a message m >= n ends in a
\* signalled failure, never in a successful result.
C3_OutsideDomainSignalled ==
    (Returned("decrypt") /\ ~call.threw /\ Ct.ok /\ call.s = key.s
        /\ Ct.m >= Order)
      => call.result # RLC_OK

\* C4: no successful elgamal_keygen returns the private scalar 0 or the
\* identity element as public point.
C4_KeyNeverZero ==
    (Returned("keygen") /\ call.ret = RLC_OK)
      => key.s # 0 /\ key.B # Infinity

\* C4's case: a successful keygen that drew the smallest scalar.
C4_Witness ==
    Returned("keygen") /\ call.ret = RLC_OK /\ key.s = 1 /\ key.B = Generator

\* Two ciphertexts of one message under one public point.
SameMessageTwice == ct[1].ok /\ ct[2].ok /\ ct[1].m = ct[2].m

\* C5 (as claimed): two encryptions of the same message under the same public
\* point have different M1 components, and both decrypt to the message.
C5_DistinctM1 ==
    SameMessageTwice
      => /\ ct[1].M1 # ct[2].M1
         /\ (Returned("decrypt") /\ ~call.threw /\ call.s = key.s) => mOut = Ct.m

\* C5 (amended): the two M1 components differ exactly when the two ephemeral
\* scalars differ modulo n, and each ciphertext of a message m in [0, n)
\* decrypts to m under the private scalar of the key pair.
C5_M1DifferIffKDiffer ==
    SameMessageTwice
      => /\ (ct[1].M1 # ct[2].M1) <=> (ct[1].k % Order # ct[2].k % Order)
         /\ (Returned("decrypt") /\ ~call.threw /\ call.s = key.s
                /\ Ct.m < Order) => mOut = Ct.m

\* C5's case: two different ephemeral scalars, congruent modulo n, and the
\* second ciphertext decrypted.
C5_Witness ==
    /\ SameMessageTwice /\ ct[1].k # ct[2].k /\ ct[1].M1 = ct[2].M1
    /\ Returned("decrypt") /\ call.slot = 2 /\ mOut = ct[2].m

\* C6 (as claimed): a call in which a statement threw leaves the caller's
\* output locations with the values they had before the call.
C6_FailureAtomic ==
    (pc = "idle" /\ call.op # "none" /\ call.threw) => ~call.changed

\* C7 (as claimed): the caller of each of the three functions receives
\* RLC_ERR when a statement threw and RLC_OK when none did.
C7_StatusReported ==
    (pc = "idle" /\ call.op # "none")
      => call.ret = (IF call.threw THEN RLC_ERR ELSE RLC_OK)

\* The temporaries each function declares.
TempsOf(op) ==
    CASE op = "keygen" -> {"P", "n"}
      [] op = "encrypt" -> {"k", "P", "h", "M"}
      [] op = "decrypt" -> {"h", "M", "P", "ord"}
      [] OTHER -> {}

\* C8: no temporary is released more often than it was allocated; when a call
\* has returned, every temporary it allocated has been released exactly once
\* and none it did not allocate has been released; a call in which nothing
\* threw allocated all the temporaries of its function.
C8_ReleasedExactlyOnce ==
    /\ \A t \in TempNames : temps[t].frees <= temps[t].allocs /\ temps[t].allocs <= 1
    /\ pc = "idle" =>
          \A t \in TempNames : temps[t].frees = temps[t].allocs /\ ~temps[t].live
    /\ (pc = "idle" /\ ~call.threw) =>
          {t \in TempNames : temps[t].allocs = 1} = TempsOf(call.op)

\* C8's case: elgamal_decrypt returned after bn_new(ord) threw, with h, M and P
\* allocated and released and ord never allocated.
C8_Witness ==
    /\ Returned("decrypt") /\ call.threw
    /\ temps["h"].frees = 1 /\ temps["P"].frees = 1
    /\ temps["ord"].allocs = 0 /\ temps["ord"].frees = 0

\* C9: decrypting with a private scalar s' other than the one of the key pair
\* ends with *m below n, and *m is the encrypted message only when
\* k*(s - s') is 0 modulo n.
C9_WrongKey ==
    (Returned("decrypt") /\ ~call.threw /\ Ct.ok /\ call.s # key.s)
      => /\ mOut \in 0 .. (Order - 1)
         /\ mOut = Ct.m => (Ct.k * (key.s - call.s)) % Order = 0

\* C9's case: a decryption with another scalar that ended with another value.
C9_Witness ==
    /\ Returned("decrypt") /\ ~call.threw /\ Ct.ok /\ call.s # key.s
    /\ Ct.m < Order /\ mOut # Ct.m /\ Ct.k % Order # 0

\* C10 (as claimed): when bulletproof_rangeproof_teardown has returned, every
\* block allocated by the setup and the commit has been freed exactly once,
\* and free() was called on nothing else.
C10_TeardownReleasesAll ==
    bp.pos = "done"
      => /\ \A b \in Blocks : bp.heap[b].frees = bp.heap[b].allocs
         /\ bp.wild = 0

\* The states of the search in elgamal_decrypt: the loop is running; it was
\* left by the break; it was left because *m reached ord.
Searching == pc = "dec_loop"
Found == pc = "dec_finally" /\ ~call.threw /\ mOut # Order
Exhausted == pc = "dec_finally" /\ ~call.threw /\ mOut = Order
\* t*P is the masked point M.
Matches(t) == (t * Generator) % Order = loc.M

\* The search starts at t = 0; a step that stays in the loop goes from a t
\* that does not match to t + 1.
SearchAdvances ==
    /\ (~Searching /\ Searching') => mOut' = 0
    /\ (Searching /\ Searching') =>
          mOut # Order /\ ~Matches(mOut) /\ mOut' = mOut + 1 /\ loc'.M = loc.M
\* The search ends in Found at a t that matches and that no smaller t matches,
\* and in Exhausted at t = n with no match below n; neither is left for the
\* loop again, and *m stays what the search left.
SearchEnds ==
    /\ (Searching /\ Found') =>
          /\ mOut' = mOut /\ Matches(mOut)
          /\ \A u \in 0 .. (mOut - 1) : ~Matches(u)
    /\ (Searching /\ Exhausted') =>
          mOut' = mOut /\ \A u \in 0 .. (Order - 1) : ~Matches(u)
    /\ (pc = "dec_finally") => (pc' # "dec_loop" /\ mOut' = mOut)

\* C11 (as claimed): every step out of Searching stays in Searching with the
\* next t, or goes to Found at the first match, or to Exhausted at t = n.
C11_SearchMachine ==
    [][/\ SearchAdvances
       /\ SearchEnds
       /\ Searching => (Searching' \/ Found' \/ Exhausted')]_vars

\* C11 (amended): as claimed, with a third way out of Searching: ec_mul or
\* bn_add_dig throws, and the search ends with the status RLC_ERR and no
\* result, at the t it had reached.
C11_SearchMachineOrThrow ==
    [][/\ SearchAdvances
       /\ SearchEnds
       /\ Searching =>
            \/ Searching' \/ Found' \/ Exhausted'
            \/ /\ pc' = "dec_finally" /\ call'.threw /\ ~call.threw
               /\ call'.result = RLC_ERR /\ mOut' = mOut]_vars

\* C11's case: the search ended in Found at the last t below n.
C11_Witness == Found /\ mOut = Order - 1 /\ Matches(mOut) /\ call.op = "decrypt"

\* C12: the loop counter *m never exceeds n and the search never carries out
\* more than n scalar multiplications, whatever the private scalar and the
\* ciphertext; a search in which nothing threw has carried out exactly m + 1
\* of them, m in [0, n) being the scalar with m*P equal to the masked point
\* (the encrypted message, when the private scalar is the key pair's).
C12_SearchBounded ==
    /\ mOut \in 0 .. Order
    /\ call.muls \in 0 .. Order
    /\ (pc = "dec_finally" /\ ~call.threw) =>
          \E m \in 0 .. (Order - 1) :
             /\ (m * Generator) % Order = loc.M
             /\ call.muls = m + 1
    /\ (Returned("decrypt") /\ ~call.threw /\ Ct.ok /\ call.s = key.s
           /\ Ct.m < Order) => call.muls = Ct.m + 1

\* C12's case: the search for the largest message, n - 1, ended after n
\* multiplications.
C12_Witness ==
    /\ Returned("decrypt") /\ ~call.threw /\ Ct.ok /\ call.s = key.s
    /\ Ct.m = Order - 1 /\ call.muls = Order

\* ---------------------------------------------------- the blinding factors
\* The conversion of a size_t to unsigned char.
ToByte(x) == x % ByteRange

\* blind[0] = i; blind[1] = i >> 8; the other bytes stay.
BlindAt(buf, i) ==
    [buf EXCEPT ![1] = ToByte(i), ![2] = ToByte(i \div (2 ^ ShiftBits))]

\* Values of n_commits and loop indices the check looks at.
CommitCounts == {1, 2, 3, ByteRange + 1, ByteRange * ByteRange, BigCommits}
Stops == CommitCounts \cup {ByteRange}
\* What generate_secure_random_bytes may leave in blind.
Seeds == {[x \in 1 .. BlindLen |-> 0], [x \in 1 .. BlindLen |-> ByteRange - 1],
          [x \in 1 .. BlindLen |-> (7 * x) % ByteRange]}

\* bulletproof_rangeproof_pedersen_commit with n_commits = nc: the random
\* blind, i = 0.
BlindEnter(nc, seed) ==
    /\ bl.pos = "new"
    /\ bl' = [bl EXCEPT !.pos = "loop", !.nc = nc, !.buf = seed, !.i = 0]
    /\ UNCHANGED <<pc, key, ct, mOut, call, temps, loc, bp>>

\* The turns i, ..., to - 1 of the loop: each overwrites blind[0] and blind[1]
\* and copies blind to data->blind[i]; the copy of the last of them is kept.
BlindTurns(to) ==
    /\ bl.pos = "loop"
    /\ bl.i < to /\ to <= bl.nc
    /\ LET last == BlindAt(bl.buf, to - 1)
       IN bl' = [bl EXCEPT !.buf = last, !.i = to,
                           !.kept = @ \cup {<<to - 1, last>>}]
    /\ UNCHANGED <<pc, key, ct, mOut, call, temps, loc, bp>>

\* The loop ends at i = n_commits.
BlindExit ==
    /\ bl.pos = "loop"
    /\ bl.i = bl.nc
    /\ bl' = [bl EXCEPT !.pos = "done"]
    /\ UNCHANGED <<pc, key, ct, mOut, call, temps, loc, bp>>

NextBlind ==
    \/ \E nc \in CommitCounts, seed \in Seeds : BlindEnter(nc, seed)
    \/ \E to \in Stops : BlindTurns(to)
    \/ BlindExit

SpecBlind == Init /\ [][NextBlind]_vars

\* C13 (as claimed): the blinding factors written for two different indices
\* below n_commits differ, for every n_commits.
C13_BlindsDistinct ==
    \A a \in bl.kept, b \in bl.kept : a[1] # b[1] => a[2] # b[2]

=============================================================================
